---- MODULE Spec2Model ----
(***************************************************************************)
(* Streaming generation core of LLaMA2-Accessory:                          *)
(*   - MetaModel.stream_generate          (accessory/model/meta.py)        *)
(*   - model_worker / gradio_worker       (accessory/demos/multi_turn_mm.py)*)
(* The Model forward pass and the tokenizer are opaque: the token sampled  *)
(* at a step is an arbitrary vocabulary id, the same for every shard that  *)
(* reaches the same step of the same request; decode concatenates the      *)
(* per-token strings.                                                      *)
(***************************************************************************)
EXTENDS Integers, Sequences, FiniteSets, TLC

\* ------------------------------------------------------------------ bounds
NumWorkers == 2
MaxRequests == 2
MaxSeqLen == 6
MaxPromptLen == 1
ImageWords == 1
RngStates == 2

\* ------------------------------------------------------- program constants
Primary == 0
\* the end-of-sequence id; it differs from the value 0 that fills the token
\* buffer (meta.py line 325)
EosId == 4
Ranks == 0..(NumWorkers - 1)
\* the generator state left by torch.manual_seed(1) (multi_turn_mm.py line 54)
SeedState == 1
Vocab == 1..4
MaxGenLen == MaxSeqLen \div 2
BarrierParties_NoOrchestrator == NumWorkers
BarrierParties == NumWorkers + 1

\* token sequences the Model is made to produce
Scripts ==
  { <<1, 3, 2>>, <<2, 1, 4>>, <<3, 2, 1>>, <<1, 1, 1>>, <<4, 4, 4>>,
    <<1, 4, 4>>, <<2, 2, 2>> }

Whitespace == {"sp", "nl"}
conv_sep == <<"#", "#", "#">>

\* text of one token id (tokenizer.decode of a single id); eos has no text
TokText(t) ==
  CASE t = 1 -> <<"a", "sp", "nl">>
    [] t = 2 -> <<"#">>
    [] t = 3 -> <<"#", "#">>
    [] OTHER -> <<>>

\* ------------------------------------------------------------ pure helpers
SetMin(S) == CHOOSE x \in S : \A y \in S : x <= y
SetMax(S) == CHOOSE x \in S : \A y \in S : x >= y
PyMin(a, b) == IF a <= b THEN a ELSE b

RECURSIVE decode(_)
decode(toks) ==
  IF toks = <<>> THEN <<>> ELSE TokText(Head(toks)) \o decode(Tail(toks))

\* str.find: 0-based index of the first occurrence, -1 when absent
find(text, pat) ==
  LET cands == {i \in 0..(Len(text) - Len(pat)) :
                   SubSeq(text, i + 1, i + Len(pat)) = pat}
  IN IF cands = {} THEN -1 ELSE SetMin(cands)

\* str.rstrip()
rstrip(text) ==
  LET keep == {i \in 1..Len(text) : text[i] \notin Whitespace}
  IN IF keep = {} THEN <<>> ELSE SubSeq(text, 1, SetMax(keep))

\* s[-n:] with Python's slice semantics (n = 0 keeps all, n < 0 drops -n)
PyTail(s, n) ==
  IF n > 0 THEN SubSeq(s, SetMax({1, Len(s) - n + 1}), Len(s))
  ELSE IF n = 0 THEN s
  ELSE SubSeq(s, (-n) + 1, Len(s))

\* s[:-n] for n >= 1
PyDropLast(s, n) == SubSeq(s, 1, Len(s) - n)

IsPrefix(p, s) == Len(p) <= Len(s) /\ SubSeq(s, 1, Len(p)) = p
IsProperPrefix(p, s) == Len(p) < Len(s) /\ SubSeq(s, 1, Len(p)) = p
IsSuffix(p, s) == Len(p) <= Len(s) /\ SubSeq(s, Len(s) - Len(p) + 1, Len(s)) = p
Last(s) == s[Len(s)]

\* ------------------------------------------------------------------ items
Ready == [kind |-> "Ready", text |-> <<>>, end_of_content |-> FALSE]
ModelFailure == [kind |-> "ModelFailure", text |-> <<>>, end_of_content |-> FALSE]
Content(t, e) == [kind |-> "content", text |-> t, end_of_content |-> e]

\* ------------------------------------------------- stream_generate: INIT
\* the encoded prompt: n distinct ids, so that truncation is observable
PromptTokens(n) == [i \in 1..n |-> 100 + i]

gen_max_seq_len(image) == IF image THEN MaxSeqLen - ImageWords ELSE MaxSeqLen

GenInit(req) ==
  LET max_seq_len == gen_max_seq_len(req.image)
      max_prompt_size == max_seq_len - req.max_gen_len
      prompt_tokens == PyTail(PromptTokens(req.prompt_len), max_prompt_size)
      prompt_size == Len(prompt_tokens)
      total_len == PyMin(max_seq_len, req.max_gen_len + prompt_size)
  IN [ active |-> TRUE,
       image |-> req.image,
       model_out |-> req.model_out,
       total_len |-> total_len,
       tokens |-> [i \in 1..SetMax({total_len, prompt_size}) |->
                     IF i <= prompt_size THEN prompt_tokens[i] ELSE 0],
       start_pos |-> prompt_size,
       prev_pos |-> 0,
       cur_pos |-> prompt_size,
       generate_until |-> prompt_size ]

NoGen ==
  [ active |-> FALSE, image |-> FALSE, model_out |-> <<>>, total_len |-> 0,
    tokens |-> <<>>,
    start_pos |-> 0, prev_pos |-> 0, cur_pos |-> 0, generate_until |-> 0 ]

\* tokenizer.decode(tokens[start_pos:generate_until])
Generated(gs) == decode(SubSeq(gs.tokens, gs.start_pos + 1, gs.generate_until))

\* ------------------------------------------------ model_worker: loop body
\* lines 112-117: separator found => truncate, rstrip, newline, terminal
TrimFound(ev) ==
  LET end_pos == find(ev.text, conv_sep)
  IN IF end_pos # -1
       THEN Content(rstrip(SubSeq(ev.text, 1, end_pos)) \o <<"nl">>, TRUE)
       ELSE ev

\* line 122: the event is skipped (continue)
TrimSkips(ev) == ~ev.end_of_content /\ Len(ev.text) < Len(conv_sep)

\* lines 124-126: characters held back from a non-terminal event
TrimHold_None(ev) == ev
TrimHold_TwoLess(ev) ==
  IF ev.end_of_content THEN ev
  ELSE Content(PyDropLast(ev.text, Len(conv_sep) - 2), FALSE)
TrimHold_OneLess(ev) ==
  IF ev.end_of_content THEN ev
  ELSE Content(PyDropLast(ev.text, Len(conv_sep) - 1), FALSE)
TrimHold(ev) ==
  IF ev.end_of_content THEN ev
  ELSE Content(PyDropLast(ev.text, Len(conv_sep)), FALSE)

\* lines 131-132: the worker leaves the stream after a terminal event
WorkerBreaks_Never(ev) == FALSE
WorkerBreaks(ev) == ev.end_of_content

\* lines 112-126 are outside the `response_queue is not None` guard of line
\* 128: every rank looks for the separator in what its generator yields
TrimsStream_PrimaryOnly(r) == r = Primary
TrimsStream(r) == r \in Ranks

\* line 297: only rank 0 is handed the response queue
HasResponseQueue_All(r) == TRUE
HasResponseQueue(r) == r = Primary


\* ------------------------------------------------------------------ state
VARIABLES
  wpc,             \* worker position: init, barrier, top, get, gen, dead, initfail
  gpc,             \* gradio_worker position: setup, barrier, idle, waitReady, broadcast, relay
  barrierCount,    \* parties that have called barrier.wait()
  request_queues,  \* one queue per worker
  response_queue,  \* the shared response queue
  bidx,            \* next index of `for queue in request_queues`
  curReq,          \* arguments of the running stream_model_output call
  reqs,            \* number of calls of stream_model_output so far
  g,               \* per worker: the locals of its stream_generate generator
  wreq,            \* per worker: id of the request it is handling (0: none)
  posted,          \* items the primary put for its current request
  nYield,          \* per worker: events its generator yielded (end_of_content false)
  nFinal,          \* per worker: events its generator yielded (end_of_content true)
  genEnd,          \* per worker: how its generator last ended
  raisedCount,     \* per worker: exceptions raised inside the try block
  failPosted,      \* per worker: ModelFailure markers it put
  relayed,         \* items the running call has yielded to the caller
  outcome          \* how the last call ended: none, done, RuntimeError, TypeError

\* state of the components when they are run on their own
VARIABLES
  hist,            \* per worker: the requests it took, with the generator
                   \* state at the start of each decode, the passes of the
                   \* decode loop it made and how the decode ended
  wrng,            \* per worker: state of its random generator
  readyPosted      \* per worker: Ready markers it has put

VARIABLES
  conv,            \* a Conversation and the locals of its process() call
  topp,            \* the tensors of one sample_top_p call
  sg               \* stream_generate runs driven by a single consumer

vars == << wpc, gpc, barrierCount, request_queues, response_queue, bidx, curReq,
           reqs, g, wreq, posted, nYield, nFinal, genEnd,
           raisedCount, failPosted, relayed, outcome, hist, wrng, readyPosted,
           conv, topp, sg >>

aloneVars == << conv, topp, sg >>
workerGhost == << nYield, nFinal, genEnd >>
orchVars == << gpc, bidx, curReq, reqs, relayed, outcome >>
workerHist == << hist, wrng >>
workerLog == << workerHist, readyPosted >>
demoVars == << wpc, barrierCount, request_queues, response_queue, g, wreq,
               posted, workerGhost, raisedCount, failPosted, orchVars,
               workerLog >>

NoReq ==
  [id |-> 0, prompt_len |-> 0, max_gen_len |-> 0, image |-> FALSE,
   model_out |-> <<>>]

\* the request tuples of the id-th call, with the max_gen_len slider at its
\* default (line 196); model_out is no part of the tuple: it fixes what the
\* Model and the sampler will return for it
Requests(id) ==
  [ id : {id}, prompt_len : 1..MaxPromptLen, max_gen_len : {MaxGenLen},
    image : BOOLEAN, model_out : Scripts ]

OrchInit ==
  /\ wpc = [r \in Ranks |-> "init"]
  /\ gpc = "setup"
  /\ barrierCount = 0
  /\ request_queues = [r \in Ranks |-> <<>>]
  /\ response_queue = <<>>
  /\ bidx = 0
  /\ curReq = NoReq
  /\ reqs = 0
  /\ g = [r \in Ranks |-> NoGen]
  /\ wreq = [r \in Ranks |-> 0]
  /\ posted = <<>>
  /\ nYield = [r \in Ranks |-> 0]
  /\ nFinal = [r \in Ranks |-> 0]
  /\ genEnd = [r \in Ranks |-> "none"]
  /\ raisedCount = [r \in Ranks |-> 0]
  /\ failPosted = [r \in Ranks |-> 0]
  /\ relayed = <<>>
  /\ outcome = "none"
  /\ hist = [r \in Ranks |-> <<>>]
  /\ wrng = [r \in Ranks |-> SeedState]
  /\ readyPosted = [r \in Ranks |-> 0]

\* the components that are not running
AloneOff == [pc |-> "off"]
NoRuns == <<>>

Init ==
  /\ OrchInit
  /\ conv = AloneOff
  /\ topp = AloneOff
  /\ sg = NoRuns

\* ---------------------------------------------------- startup and barrier
\* model_worker lines 43-91: load the model, then barrier.wait()
WorkerLoaded(r) ==
  /\ wpc[r] = "init"
  /\ wpc' = [wpc EXCEPT ![r] = "barrier"]
  /\ barrierCount' = barrierCount + 1
  /\ UNCHANGED << request_queues, response_queue, g, wreq,
                  posted, workerGhost, raisedCount, failPosted, orchVars >>
  /\ UNCHANGED workerHist
  /\ UNCHANGED readyPosted
  /\ UNCHANGED aloneVars

\* an exception while loading is outside the try block: the process ends
WorkerLoadFails(r) ==
  /\ wpc[r] = "init"
  /\ wpc' = [wpc EXCEPT ![r] = "initfail"]
  /\ UNCHANGED << barrierCount, request_queues, response_queue, g, wreq, posted, workerGhost, raisedCount, failPosted, orchVars >>
  /\ UNCHANGED workerHist
  /\ UNCHANGED readyPosted
  /\ UNCHANGED aloneVars

\* barrier.wait() returns once all parties have arrived
WorkerPassBarrier(r) ==
  /\ wpc[r] = "barrier"
  /\ barrierCount >= BarrierParties
  /\ wpc' = [wpc EXCEPT ![r] = "top"]
  /\ UNCHANGED << barrierCount, request_queues, response_queue, g, wreq, posted, workerGhost, raisedCount, failPosted, orchVars >>
  /\ UNCHANGED workerHist
  /\ UNCHANGED readyPosted
  /\ UNCHANGED aloneVars

\* gradio_worker line 221
GradioArrive ==
  /\ gpc = "setup"
  /\ gpc' = "barrier"
  /\ barrierCount' = barrierCount + 1
  /\ UNCHANGED << wpc, request_queues, response_queue, bidx, curReq, reqs, g,
                  wreq, posted, workerGhost, raisedCount,
                  failPosted, relayed, outcome >>
  /\ UNCHANGED workerHist
  /\ UNCHANGED readyPosted
  /\ UNCHANGED aloneVars

\* gradio_worker lines 221-222: the barrier opens, the UI is launched
GradioLaunch ==
  /\ gpc = "barrier"
  /\ barrierCount >= BarrierParties
  /\ gpc' = "idle"
  /\ UNCHANGED << wpc, barrierCount, request_queues, response_queue, bidx,
                  curReq, reqs, g, wreq, posted, workerGhost,
                  raisedCount, failPosted, relayed, outcome >>
  /\ UNCHANGED workerHist
  /\ UNCHANGED readyPosted
  /\ UNCHANGED aloneVars

\* ------------------------------------------------------------ model_worker
\* lines 93-95: top of the loop; the primary announces that it is ready
WorkerTop(r) ==
  /\ wpc[r] = "top"
  /\ wpc' = [wpc EXCEPT ![r] = "get"]
  /\ response_queue' = IF HasResponseQueue(r)
                         THEN Append(response_queue, Ready)
                         ELSE response_queue
  /\ g' = [g EXCEPT ![r] = NoGen]
  /\ wreq' = [wreq EXCEPT ![r] = 0]
  /\ posted' = IF r = Primary THEN <<>> ELSE posted
  /\ nYield' = [nYield EXCEPT ![r] = 0]
  /\ nFinal' = [nFinal EXCEPT ![r] = 0]
  /\ genEnd' = [genEnd EXCEPT ![r] = "none"]
  /\ UNCHANGED << barrierCount, request_queues, raisedCount,
                  failPosted, orchVars >>
  /\ UNCHANGED workerHist
  /\ readyPosted' = [readyPosted EXCEPT ![r] =
                       IF HasResponseQueue(r) THEN @ + 1 ELSE @]
  /\ UNCHANGED aloneVars

\* lines 97-111: take a request, build the prompt, open stream_generate
WorkerGet(r) ==
  /\ wpc[r] = "get"
  /\ request_queues[r] # <<>>
  /\ LET req == Head(request_queues[r])
     IN /\ request_queues' = [request_queues EXCEPT ![r] = Tail(@)]
        /\ wreq' = [wreq EXCEPT ![r] = req.id]
        /\ g' = [g EXCEPT ![r] = GenInit(req)]
  /\ wpc' = [wpc EXCEPT ![r] = "gen"]
  /\ UNCHANGED << barrierCount, response_queue, posted,
                  workerGhost, raisedCount, failPosted, orchVars >>
  /\ hist' = [hist EXCEPT ![r] =
                Append(@, [req |-> Head(request_queues[r]), rng0 |-> wrng[r],
                           steps |-> 0, end |-> "none"])]
  /\ UNCHANGED wrng
  /\ UNCHANGED readyPosted
  /\ UNCHANGED aloneVars

\* meta.py lines 331-345: one iteration of the decode loop up to the yield
GenAppend_NoAdvance(gs, t) ==
  [gs EXCEPT !.tokens[gs.cur_pos + 1] = t,
             !.prev_pos = gs.cur_pos,
             !.generate_until = gs.cur_pos + 1]
GenAppend_NoCache(gs, t) ==
  [gs EXCEPT !.tokens[gs.cur_pos + 1] = t,
             !.generate_until = gs.cur_pos + 1,
             !.cur_pos = gs.cur_pos + 1]
GenAppend(gs, t) ==
  [gs EXCEPT !.tokens[gs.cur_pos + 1] = t,
             !.prev_pos = gs.cur_pos,
             !.generate_until = gs.cur_pos + 1,
             !.cur_pos = gs.cur_pos + 1]

\* meta.py lines 332-338: forward_inference and sampling are opaque; the
\* request carries the ids they return, so every shard draws the same ones
next_token(gs) ==
  LET k == gs.cur_pos - gs.start_pos + 1
  IN IF k <= Len(gs.model_out) THEN gs.model_out[k] ELSE EosId

\* meta.py lines 333-335: sample_top_p draws from the generator (multinomial)
NextRng(rng) == (rng + 1) % RngStates

\* meta.py lines 331-354 with multi_turn_mm.py lines 108-132: the generator
\* is resumed, samples one token, and the worker handles what it yields
WorkerStep(r) ==
  /\ wpc[r] = "gen"
  /\ g[r].cur_pos < g[r].total_len
  /\ IF next_token(g[r]) = EosId
       THEN \* break; the generator returns without yielding
            /\ wpc' = [wpc EXCEPT ![r] = "top"]
            /\ genEnd' = [genEnd EXCEPT ![r] = "eos"]
            /\ UNCHANGED << g, response_queue, posted, nYield >>
       ELSE LET gs == GenAppend(g[r], next_token(g[r]))
                ev0 == Content(Generated(gs), FALSE)
                ev1 == IF TrimsStream(r) THEN TrimFound(ev0) ELSE ev0
                ev2 == TrimHold(ev1)
                puts == ~TrimSkips(ev1) /\ HasResponseQueue(r)
                leaves == ~TrimSkips(ev1) /\ WorkerBreaks(ev2)
            IN /\ g' = [g EXCEPT ![r] = gs]
               /\ nYield' = [nYield EXCEPT ![r] = @ + 1]
               /\ response_queue' =
                    IF puts THEN Append(response_queue, ev2)
                    ELSE response_queue
               /\ posted' =
                    IF puts /\ r = Primary THEN Append(posted, ev2)
                    ELSE posted
               /\ wpc' = [wpc EXCEPT ![r] = IF leaves THEN "top" ELSE "gen"]
               /\ genEnd' = [genEnd EXCEPT ![r] = IF leaves THEN "break" ELSE @]
  /\ UNCHANGED << barrierCount, request_queues, wreq, nFinal, raisedCount,
                  failPosted, orchVars >>
  /\ hist' = [hist EXCEPT ![r][Len(hist[r])] =
                [@ EXCEPT !.steps = @ + 1, !.end = genEnd'[r]]]
  /\ wrng' = [wrng EXCEPT ![r] = NextRng(@)]
  /\ UNCHANGED readyPosted
  /\ UNCHANGED aloneVars

\* meta.py lines 331, 356-357: range(start_pos, total_len) is used up; the
\* generator returns its last dict as the StopIteration value
WorkerExhausted(r) ==
  /\ wpc[r] = "gen"
  /\ g[r].cur_pos >= g[r].total_len
  /\ wpc' = [wpc EXCEPT ![r] = "top"]
  /\ genEnd' = [genEnd EXCEPT ![r] = "len"]
  /\ UNCHANGED << barrierCount, request_queues, response_queue, g, wreq,
                  posted, nYield, nFinal, raisedCount, failPosted, orchVars >>
  /\ hist' = [hist EXCEPT ![r][Len(hist[r])].end = "len"]
  /\ UNCHANGED wrng
  /\ UNCHANGED readyPosted
  /\ UNCHANGED aloneVars

\* lines 133-134: an exception inside the try block; response_queue is None
\* in a replica, so its handler raises AttributeError and the process ends
WorkerRaise(r) ==
  /\ wpc[r] = "gen"
  /\ raisedCount' = [raisedCount EXCEPT ![r] = @ + 1]
  /\ IF HasResponseQueue(r)
       THEN /\ response_queue' = Append(response_queue, ModelFailure)
            /\ failPosted' = [failPosted EXCEPT ![r] = @ + 1]
            /\ wpc' = [wpc EXCEPT ![r] = "top"]
       ELSE /\ wpc' = [wpc EXCEPT ![r] = "dead"]
            /\ UNCHANGED << response_queue, failPosted >>
  /\ genEnd' = [genEnd EXCEPT ![r] = "raise"]
  /\ UNCHANGED << barrierCount, request_queues, g, wreq, posted, nYield,
                  nFinal, orchVars >>
  /\ hist' = [hist EXCEPT ![r][Len(hist[r])].end = "raise"]
  /\ UNCHANGED wrng
  /\ UNCHANGED readyPosted
  /\ UNCHANGED aloneVars

\* ----------------------------------------------------------- gradio_worker
\* the UI calls stream_model_output (one call at a time: concurrency_count=1)
Submit ==
  /\ gpc = "idle"
  /\ reqs < MaxRequests
  /\ \E req \in Requests(reqs + 1) : curReq' = req
  /\ reqs' = reqs + 1
  /\ gpc' = "waitReady"
  /\ relayed' = <<>>
  /\ outcome' = "none"
  /\ UNCHANGED << wpc, barrierCount, request_queues, response_queue, bidx, g,
                  wreq, posted, workerGhost, raisedCount,
                  failPosted >>
  /\ UNCHANGED workerHist
  /\ UNCHANGED readyPosted
  /\ UNCHANGED aloneVars

\* line 158
OrchIsReady(item) == item.kind = "Ready"

\* lines 156-159: read the response queue until a Ready marker is seen
OrchWaitReady ==
  /\ gpc = "waitReady"
  /\ response_queue # <<>>
  /\ response_queue' = Tail(response_queue)
  /\ IF OrchIsReady(Head(response_queue))
       THEN gpc' = "broadcast" /\ bidx' = 0
       ELSE UNCHANGED << gpc, bidx >>
  /\ UNCHANGED << wpc, barrierCount, request_queues, curReq, reqs, g, wreq,
                  posted, workerGhost, raisedCount, failPosted,
                  relayed, outcome >>
  /\ UNCHANGED workerHist
  /\ UNCHANGED readyPosted
  /\ UNCHANGED aloneVars

\* lines 160-161: one put of the broadcast loop
OrchPut ==
  /\ gpc = "broadcast"
  /\ request_queues' = [request_queues EXCEPT ![bidx] = Append(@, curReq)]
  /\ bidx' = bidx + 1
  /\ gpc' = IF bidx + 1 = NumWorkers THEN "relay" ELSE "broadcast"
  /\ UNCHANGED << wpc, barrierCount, response_queue, curReq, reqs, g, wreq,
                  posted, workerGhost, raisedCount, failPosted,
                  relayed, outcome >>
  /\ UNCHANGED workerHist
  /\ UNCHANGED readyPosted
  /\ UNCHANGED aloneVars

\* lines 162-169: one iteration of the relay loop.  A Ready marker read here
\* is not a ModelFailure, and subscripting it raises TypeError.
OrchRelay ==
  /\ gpc = "relay"
  /\ response_queue # <<>>
  /\ response_queue' = Tail(response_queue)
  /\ LET content_piece == Head(response_queue)
     IN IF content_piece.kind = "ModelFailure"
          THEN gpc' = "idle" /\ outcome' = "RuntimeError" /\ UNCHANGED relayed
          ELSE IF content_piece.kind = "Ready"
            THEN gpc' = "idle" /\ outcome' = "TypeError" /\ UNCHANGED relayed
            ELSE /\ relayed' = Append(relayed, content_piece)
                 /\ IF content_piece.end_of_content
                      THEN gpc' = "idle" /\ outcome' = "done"
                      ELSE UNCHANGED << gpc, outcome >>
  /\ UNCHANGED << wpc, barrierCount, request_queues, bidx, curReq, reqs, g,
                  wreq, posted, workerGhost, raisedCount,
                  failPosted >>
  /\ UNCHANGED workerHist
  /\ UNCHANGED readyPosted
  /\ UNCHANGED aloneVars

\* ---------------------------------------------------------- specification
Next ==
  \/ \E r \in Ranks : WorkerLoaded(r)
  \/ \E r \in Ranks : WorkerLoadFails(r)
  \/ \E r \in Ranks : WorkerPassBarrier(r)
  \/ GradioArrive
  \/ GradioLaunch
  \/ \E r \in Ranks : WorkerTop(r)
  \/ \E r \in Ranks : WorkerGet(r)
  \/ \E r \in Ranks : WorkerStep(r)
  \/ \E r \in Ranks : WorkerExhausted(r)
  \/ \E r \in Ranks : WorkerRaise(r)
  \/ Submit
  \/ OrchWaitReady
  \/ OrchPut
  \/ OrchRelay

Spec == Init /\ [][Next]_vars

TypeOK ==
  /\ wpc \in [Ranks -> {"init", "barrier", "top", "get", "gen", "dead", "initfail",
                      "stalled"}]
  /\ gpc \in {"setup", "barrier", "idle", "waitReady", "broadcast", "relay"}
  /\ reqs \in 0..MaxRequests
  /\ \A r \in Ranks : Len(request_queues[r]) <= MaxRequests

\* ------------------------------------------------------------ properties
NoWorkerRaised == \A r \in Ranks : raisedCount[r] = 0

\* C1: when no worker raises, every call of stream_model_output ends by
\* relaying an item with end_of_content = true, however the decoder stopped
\* (separator, end-of-sequence token, total_len)
C1_RelayEndsWithTerminalItem ==
  (gpc = "idle" /\ reqs > 0 /\ NoWorkerRaised) =>
     /\ outcome = "done"
     /\ relayed # <<>>
     /\ Last(relayed).end_of_content

\* C2: when the k-th sampled token is the first end-of-sequence token, the
\* generator has yielded k-1 events with end_of_content = false and then
\* exactly one with end_of_content = true
C2_EosYieldsOneTerminalEvent ==
  \A r \in Ranks :
     genEnd[r] = "eos" =>
        /\ nYield[r] = g[r].cur_pos - g[r].start_pos
        /\ nFinal[r] = 1

\* C3: within one request nothing is relayed after an item with
\* end_of_content = true, no two such items are relayed, and the primary
\* puts nothing for the request after its terminal item
C3_NothingAfterTerminal ==
  /\ \A i \in 1..(Len(relayed) - 1) : ~relayed[i].end_of_content
  /\ \A i \in 1..(Len(posted) - 1) : ~posted[i].end_of_content

C3_Witness ==
  /\ Len(relayed) >= 2
  /\ Last(relayed).end_of_content
  /\ posted = relayed
  /\ wpc[Primary] = "top"

\* C4 (as stated): each relayed text, the terminal one included, has the
\* previously relayed text as a proper prefix
C4_StrictPrefixOrder ==
  \A i \in 1..(Len(relayed) - 1) :
     IsProperPrefix(relayed[i].text, relayed[i + 1].text)

\* C4 (amended): non-terminal texts are relayed in strictly increasing prefix
\* order, and the terminal text has the previously relayed text, with its
\* trailing whitespace removed, as a proper prefix
C4_PrefixOrderUpToTrim ==
  \A i \in 1..(Len(relayed) - 1) :
     IF relayed[i + 1].end_of_content
       THEN IsProperPrefix(rstrip(relayed[i].text), relayed[i + 1].text)
       ELSE IsProperPrefix(relayed[i].text, relayed[i + 1].text)

C4_Witness ==
  /\ Len(relayed) >= 3
  /\ Last(relayed).end_of_content
  /\ relayed[Len(relayed) - 1].text # <<>>

\* C5: every worker that raises while handling a request, primary or
\* replica, posts a ModelFailure marker on the response queue
C5_RaisePostsFailure ==
  \A r \in Ranks : failPosted[r] = raisedCount[r]

\* C6: when the call ends with the error raised for a worker failure, no
\* item of the request has been relayed to the caller
C6_ErrorWithoutPartialStream ==
  outcome = "RuntimeError" => relayed = <<>>

\* a worker that has left every earlier request and has none waiting
WorkerIdle(r) ==
  /\ wpc[r] \in {"barrier", "top", "get"}
  /\ request_queues[r] = <<>>

\* C7 (as stated): when the request tuple is put on a request queue, every
\* worker that has not been handed it yet is idle
C7_AllWorkersIdleAtBroadcast ==
  gpc = "broadcast" => \A r \in Ranks : r >= bidx => WorkerIdle(r)

\* C7 (amended): when the broadcast starts, the primary has left every
\* earlier request, has posted its Ready marker and waits on its request
\* queue; replicas are not waited for
C7_PrimaryIdleAtBroadcast ==
  (gpc = "broadcast" /\ bidx = 0) =>
     /\ wpc[Primary] = "get"
     /\ wreq[Primary] = 0
     /\ request_queues[Primary] = <<>>

C7_Witness ==
  /\ gpc = "broadcast"
  /\ bidx = 0
  /\ reqs = 2
  /\ \E r \in Ranks : wpc[r] = "gen"

\* C8: the orchestrator accepts no call and no request is on any request
\* queue before every worker has loaded its model
C8_NoRequestBeforeAllLoaded ==
  (gpc \notin {"setup", "barrier"} \/ \E r \in Ranks : request_queues[r] # <<>>) =>
     \A r \in Ranks : wpc[r] \notin {"init", "initfail"}

C8_Witness ==
  /\ \E r \in Ranks : request_queues[r] # <<>>
  /\ \E r \in Ranks : wpc[r] = "barrier"

\* C9 (as stated): no non-terminal item put by the worker loop ends with a
\* non-empty prefix of the separator
C9_NoSeparatorPrefixAtEnd ==
  \A i \in 1..Len(posted) :
     ~posted[i].end_of_content =>
        \A n \in 1..Len(conv_sep) :
           ~IsSuffix(SubSeq(conv_sep, 1, n), posted[i].text)

\* C9 (amended): no non-terminal item reaches into the occurrence of the
\* separator that ends the response: once the decoded text contains the
\* separator, every non-terminal item put before is a prefix of the text
\* in front of its first occurrence
C9_NoPartOfEndingSeparator ==
  LET d == Generated(g[Primary])
      end_pos == find(d, conv_sep)
  IN end_pos # -1 =>
       \A i \in 1..Len(posted) :
          ~posted[i].end_of_content =>
             IsPrefix(posted[i].text, SubSeq(d, 1, end_pos))

C9_Witness ==
  /\ find(Generated(g[Primary]), conv_sep) # -1
  /\ \E i \in 1..Len(posted) :
        ~posted[i].end_of_content /\ posted[i].text # <<>>

\* the primary has just handled a non-terminal event of at least
\* len(conv_sep) characters without the separator
C10_Case ==
  /\ wpc[Primary] = "gen"
  /\ find(Generated(g[Primary]), conv_sep) = -1
  /\ Len(Generated(g[Primary])) >= Len(conv_sep)

\* C10 (as stated): such an event is put with exactly the last
\* len(conv_sep) - 1 characters withheld
C10_WithholdsSepLenMinusOne ==
  C10_Case =>
     /\ posted # <<>>
     /\ Last(posted) =
          Content(PyDropLast(Generated(g[Primary]), Len(conv_sep) - 1), FALSE)

\* C10 (amended): such an event is put with exactly the last len(conv_sep)
\* characters withheld
C10_WithholdsSepLen ==
  C10_Case =>
     /\ posted # <<>>
     /\ Last(posted) =
          Content(PyDropLast(Generated(g[Primary]), Len(conv_sep)), FALSE)

C10_Witness ==
  /\ C10_Case
  /\ Len(Generated(g[Primary])) > Len(conv_sep)
  /\ Last(posted).text # <<>>

\* ======================================================= sample_top_p alone
\* Probabilities are integer weights over the common denominator TopPDenom;
\* top_p is the numerator p of p / TopPDenom.
TopPLen == 3
TopPDenom == 6

RECURSIVE SeqSum(_)
SeqSum(w) == IF w = <<>> THEN 0 ELSE Head(w) + SeqSum(Tail(w))

\* meta.py line 361: torch.sort(probs, descending=True) as the sequence
\* probs_idx of 1-based indices (equal entries keep their index order)
RECURSIVE SortIdx(_, _)
SortIdx(probs, left) ==
  IF left = {} THEN <<>>
  ELSE LET best == CHOOSE i \in left :
                     \A j \in left :
                        probs[i] > probs[j] \/ (probs[i] = probs[j] /\ i <= j)
       IN <<best>> \o SortIdx(probs, left \ {best})

probs_idx(probs) == SortIdx(probs, DOMAIN probs)
probs_sort(probs) == [k \in DOMAIN probs |-> probs[probs_idx(probs)[k]]]

\* meta.py line 362: torch.cumsum
probs_sum(probs) ==
  [k \in DOMAIN probs |-> SeqSum(SubSeq(probs_sort(probs), 1, k))]

\* meta.py line 363: mask = probs_sum - probs_sort > p
TopPMask_NoBoundary(probs, p, k) == probs_sum(probs)[k] > p
TopPMask(probs, p, k) == probs_sum(probs)[k] - probs_sort(probs)[k] > p

\* meta.py line 364: probs_sort[mask] = 0.0
TopPFiltered(probs, p) ==
  [k \in DOMAIN probs |->
     IF TopPMask(probs, p, k) THEN 0 ELSE probs_sort(probs)[k]]

\* sorted positions that are not masked
TopPKept(probs, p) == {k \in DOMAIN probs : ~TopPMask(probs, p, k)}

TopPInputs ==
  { w \in [1..TopPLen -> 0..TopPDenom] : SeqSum(w) = TopPDenom }

InitTopP ==
  /\ OrchInit
  /\ conv = AloneOff
  /\ sg = NoRuns
  /\ \E w \in TopPInputs, p \in 1..TopPDenom :
        topp = [pc |-> "call", probs |-> w, p |-> p, filtered |-> <<>>,
                kept |-> {}]

\* meta.py lines 361-364: sort, cumulate, mask
TopPFilter ==
  /\ topp.pc = "call"
  /\ topp' = [topp EXCEPT !.pc = "filtered",
                          !.filtered = TopPFiltered(topp.probs, topp.p),
                          !.kept = TopPKept(topp.probs, topp.p)]
  /\ UNCHANGED << demoVars, conv, sg >>

NextTopP == TopPFilter

SpecTopP == InitTopP /\ [][NextTopP]_vars

\* mass that survives the filter, and the lowest-ranked surviving entry
KeptMass == SeqSum(topp.filtered)
LastKept == topp.filtered[SetMax(topp.kept)]

\* C16 (as stated): the kept mass is >= top_p, and without the last kept
\* entry it is strictly less than top_p
C16_KeptMassMinimal ==
  topp.pc = "filtered" =>
     /\ topp.kept # {}
     /\ KeptMass >= topp.p
     /\ KeptMass - LastKept < topp.p

\* C16 (amended): the kept mass is >= top_p, and without the last kept entry
\* it is at most top_p; it is strictly less unless the entries ranked before
\* the last kept one sum to exactly top_p
C16_KeptMassBoundary ==
  topp.pc = "filtered" =>
     /\ topp.kept # {}
     /\ KeptMass >= topp.p
     /\ KeptMass - LastKept <= topp.p
     /\ KeptMass - LastKept = topp.p =>
          \E k \in DOMAIN topp.probs :
             /\ k < SetMax(topp.kept)
             /\ probs_sum(topp.probs)[k] = topp.p

C16_Witness ==
  /\ topp.pc = "filtered"
  /\ KeptMass - LastKept = topp.p
  /\ LastKept > 0
  /\ Cardinality(topp.kept) < TopPLen

\* =================================================== stream_generate alone
\* Runs of stream_generate outside the demo: called directly, by
\* SPHINXModel.generate_reponse, or by the body of model_worker's loop.
GenScriptLen == 3

\* logits over the ids 1..4 as integer weights with sum 6; softmax is
\* monotone, so the same vector stands for the probabilities
LogitsSet ==
  { <<3, 2, 1, 0>>, <<1, 3, 2, 0>>, <<0, 1, 3, 2>>, <<2, 0, 1, 3>> }

LogitScripts == [1..GenScriptLen -> LogitsSet]

StopLists ==
  { <<>>, << <<"nl">> >>, << <<"nl">>, <<"a">> >>, << <<"a">>, <<"nl">> >>,
    << <<"#", "#">> >> }

\* the forward pass of the k-th decode step (opaque; read from the script)
LogitsAt(in, k) == in.logits[((k - 1) % Len(in.logits)) + 1]

\* meta.py line 337: torch.argmax
argmax(w) ==
  CHOOSE i \in DOMAIN w :
     \A j \in DOMAIN w : w[i] > w[j] \/ (w[i] = w[j] /\ i <= j)

\* meta.py lines 365-367: multinomial draws one kept entry of non-zero
\* weight, determined by the generator state; gather maps it to its id
sample_top_p(probs, p, rng) ==
  LET cand == {k \in TopPKept(probs, p) : TopPFiltered(probs, p)[k] > 0}
      pick == CHOOSE k \in cand :
                 Cardinality({j \in cand : j < k}) = rng % Cardinality(cand)
  IN probs_idx(probs)[pick]

\* meta.py line 333: the branch that samples
UsesSampling_Always(temperature) == temperature >= 0
UsesSampling(temperature) == temperature > 0

\* meta.py line 340
IsEos_Never(t) == FALSE
IsEos(t) == t = EosId

\* meta.py lines 348-352: the stop symbols are tried in the order supplied;
\* the first one found cuts the text. <<>> when none is found, else <<text>>
RECURSIVE StopCut(_, _)
StopCut(generated, stops) ==
  IF stops = <<>> THEN <<>>
  ELSE LET stop_pos == find(generated, Head(stops))
       IN IF stop_pos # -1 THEN << SubSeq(generated, 1, stop_pos) >>
          ELSE StopCut(generated, Tail(stops))

GenRun(in, rng) ==
  [ pc |-> "open", in |-> in, gs |-> NoGen, rng |-> rng, rng0 |-> rng,
    calls |-> <<>>, events |-> <<>>, ret |-> <<>>, end |-> "none",
    out |-> <<>>, response |-> <<>>, result |-> <<>> ]

GenInput(pl, mgl, img, temp, script, stops, consumer) ==
  [ prompt_len |-> pl, max_gen_len |-> mgl, image |-> img, model_out |-> <<>>,
    temperature |-> temp, top_p |-> 3, logits |-> script, stops |-> stops,
    consumer |-> consumer ]

\* meta.py lines 312-330, run by the first next() of the generator; line 327
\* raises when the kept prompt is longer than the buffer of total_len ids
GenOpen(i) ==
  /\ sg[i].pc = "open"
  /\ LET gs == GenInit(sg[i].in)
     IN sg' = [sg EXCEPT ![i] =
                IF gs.start_pos > gs.total_len
                  THEN [@ EXCEPT !.pc = "raised", !.end = "init", !.gs = gs]
                  ELSE [@ EXCEPT !.pc = "run", !.gs = gs]]
  /\ UNCHANGED << demoVars, conv, topp >>

\* sphinx.py lines 45-53: the body of generate_reponse's loop; the event it
\* holds is stream_response, rewritten in place when the separator is found
SphinxBody(ev) ==
  LET end_pos == find(ev.text, conv_sep)
  IN IF end_pos # -1
       THEN [ev EXCEPT !.text = rstrip(SubSeq(ev.text, 1, end_pos)) \o <<"nl">>]
       ELSE ev

SphinxBreaks_Never(ev) == FALSE
SphinxBreaks(ev) == find(ev.text, conv_sep) # -1

\* what the consumer does with one yielded event
Consume(run, ev) ==
  CASE run.in.consumer = "sphinx" ->
         [run EXCEPT !.response = << SphinxBody(ev) >>,
                     !.pc = IF SphinxBreaks(ev) THEN "done" ELSE "run",
                     !.end = IF SphinxBreaks(ev) THEN "break" ELSE @]
    [] run.in.consumer = "worker" ->
         LET ev1 == TrimFound(ev)
             ev2 == TrimHold(ev1)
             leaves == ~TrimSkips(ev1) /\ WorkerBreaks(ev2)
         IN [run EXCEPT !.out = IF TrimSkips(ev1) THEN @ ELSE Append(@, ev2),
                        !.pc = IF leaves THEN "done" ELSE "run",
                        !.end = IF leaves THEN "break" ELSE @]
    [] OTHER -> [run EXCEPT !.out = Append(@, ev)]

\* meta.py lines 331-354: one pass of the decode loop, and the consumer's
\* loop body when the pass yields
GenStepOf(run) ==
  LET gs == run.gs
      k == gs.cur_pos - gs.start_pos + 1
      call == [ lo |-> gs.prev_pos, hi |-> gs.cur_pos, start_pos |-> gs.prev_pos,
                image |-> gs.image /\ gs.prev_pos = 0 ]
      logits == LogitsAt(run.in, k)
      sampled == UsesSampling(run.in.temperature)
      tok == IF sampled THEN sample_top_p(logits, run.in.top_p, run.rng)
             ELSE argmax(logits)
      rng1 == IF sampled THEN NextRng(run.rng) ELSE run.rng
      called == [run EXCEPT !.calls = Append(@, call), !.rng = rng1]
      gs1 == GenAppend(gs, tok)
      cut == StopCut(Generated(gs1), run.in.stops)
      ev == Content(Generated(gs1), FALSE)
  IN IF IsEos(tok)
       THEN [called EXCEPT !.pc = "done", !.end = "eos",
                           !.ret = << Content(Generated(gs), TRUE) >>]
     ELSE IF cut # <<>>
       THEN [called EXCEPT !.gs = gs1, !.pc = "done", !.end = "stop",
                           !.ret = << Content(cut[1], TRUE) >>]
     ELSE Consume([called EXCEPT !.gs = gs1, !.events = Append(@, ev)], ev)

GenStep(i) ==
  /\ sg[i].pc = "run"
  /\ sg[i].gs.cur_pos < sg[i].gs.total_len
  /\ sg' = [sg EXCEPT ![i] = GenStepOf(sg[i])]
  /\ UNCHANGED << demoVars, conv, topp >>

\* meta.py lines 331, 356-357: range(start_pos, total_len) is used up
GenExhausted(i) ==
  /\ sg[i].pc = "run"
  /\ sg[i].gs.cur_pos >= sg[i].gs.total_len
  /\ sg' = [sg EXCEPT ![i] =
              [@ EXCEPT !.pc = "done", !.end = "len",
                        !.ret = << Content(Generated(sg[i].gs), TRUE) >>]]
  /\ UNCHANGED << demoVars, conv, topp >>

\* sphinx.py line 55: return stream_response['text']; the name is unbound
\* when the loop body never ran
SphinxReturn(i) ==
  /\ sg[i].pc = "done"
  /\ sg[i].in.consumer = "sphinx"
  /\ sg[i].result = <<>>
  /\ sg' = [sg EXCEPT ![i].result =
              IF sg[i].response = <<>>
                THEN << [kind |-> "UnboundLocalError", text |-> <<>>] >>
                ELSE << [kind |-> "str", text |-> sg[i].response[1].text] >>]
  /\ UNCHANGED << demoVars, conv, topp >>

NextGen ==
  \/ \E i \in DOMAIN sg : GenOpen(i)
  \/ \E i \in DOMAIN sg : GenStep(i)
  \/ \E i \in DOMAIN sg : GenExhausted(i)
  \/ \E i \in DOMAIN sg : SphinxReturn(i)

\* the consumers in src/ pass no stop symbols; a direct caller may
ConsumerStops ==
  ({"sphinx", "worker"} \X {<<>>}) \cup ({"direct"} \X StopLists)

\* one run; scripts, stop symbols, temperature and consumer vary
InitGen ==
  /\ OrchInit
  /\ conv = AloneOff
  /\ topp = AloneOff
  /\ \E pl \in 1..2, mgl \in {1, MaxGenLen}, img \in BOOLEAN, temp \in {0, 1},
        script \in LogitScripts, cs \in ConsumerStops, rng \in 0..(RngStates - 1) :
        sg = << GenRun(GenInput(pl, mgl, img, temp, script, cs[2], cs[1]), rng) >>

SpecGen == InitGen /\ [][NextGen]_vars

\* one run; prompt length and max_gen_len range past the context window
\* logits that never draw eos, draw it at the second step, or at the first
WideScripts ==
  { [k \in 1..GenScriptLen |-> <<3, 2, 1, 0>>],
    [k \in 1..GenScriptLen |-> IF k = 2 THEN <<2, 0, 1, 3>> ELSE <<3, 2, 1, 0>>],
    [k \in 1..GenScriptLen |-> IF k = 1 THEN <<2, 0, 1, 3>> ELSE <<3, 2, 1, 0>>] }

InitWide ==
  /\ OrchInit
  /\ conv = AloneOff
  /\ topp = AloneOff
  /\ \E pl \in 1..(MaxSeqLen + 1), mgl \in 1..(MaxSeqLen + 1), img \in BOOLEAN,
        script \in WideScripts, consumer \in {"direct", "sphinx"} :
        sg = << GenRun(GenInput(pl, mgl, img, 0, script, <<>>, consumer), 0) >>

SpecWide == InitWide /\ [][NextGen]_vars

\* two runs on the same prompt and image, each with its own generator state
InitTwoRuns ==
  /\ OrchInit
  /\ conv = AloneOff
  /\ topp = AloneOff
  /\ \E img \in BOOLEAN, temp \in {0, 1}, script \in LogitScripts,
        rngA \in 0..(RngStates - 1), rngB \in 0..(RngStates - 1),
        consumer \in {"direct", "sphinx"} :
        LET in == GenInput(1, MaxGenLen, img, temp, script, <<>>, consumer)
        IN sg = << GenRun(in, rngA), GenRun(in, rngB) >>

SpecTwoRuns == InitTwoRuns /\ [][NextGen]_vars

GenTypeOK ==
  \A i \in DOMAIN sg :
     /\ sg[i].pc \in {"open", "run", "done", "raised"}
     /\ sg[i].end \in {"none", "init", "eos", "stop", "len", "break"}
     /\ Len(sg[i].ret) <= 1
     /\ sg[i].rng \in 0..(RngStates - 1)

\* --------------------------------------------------------------- C11
\* what the trimming consumer has produced: the items model_worker put, or
\* the event generate_reponse holds
Produced(run) == IF run.in.consumer = "sphinx" THEN run.response ELSE run.out

SepEvent(run) ==
  run.events # <<>> /\ find(Last(run.events).text, conv_sep) # -1

TrimmedAtSep(text) ==
  rstrip(SubSeq(text, 1, find(text, conv_sep))) \o <<"nl">>

\* the parts of C11 that do not concern the flag: when an event's text
\* contains the separator the consumer produces the text before its first
\* occurrence, right-stripped, plus one newline; the generator is not resumed
\* afterwards; nothing produced contains the separator
TrimsAtSeparator(run) ==
  /\ \A k \in 1..Len(Produced(run)) :
        find(Produced(run)[k].text, conv_sep) = -1
  /\ \A j \in 1..(Len(run.events) - 1) :
        find(run.events[j].text, conv_sep) = -1
  /\ SepEvent(run) =>
        /\ run.pc = "done"
        /\ run.end = "break"
        /\ Len(run.calls) = Len(run.events)
        /\ Produced(run) # <<>>
        /\ Last(Produced(run)).text = TrimmedAtSep(Last(run.events).text)

\* C11 (as stated): in model_worker and in generate_reponse alike, an event
\* whose text contains end_signal is cut before the first occurrence,
\* right-stripped, given one newline and marked end_of_content = true; no
\* later event is processed and no produced text contains end_signal
C11_TrimmedAndMarkedTerminal ==
  \A i \in DOMAIN sg :
     sg[i].in.consumer \in {"sphinx", "worker"} =>
        /\ TrimsAtSeparator(sg[i])
        /\ SepEvent(sg[i]) => Last(Produced(sg[i])).end_of_content

\* C11 (amended): as above, but only model_worker marks the trimmed text
\* end_of_content = true; generate_reponse leaves the flag false and returns
\* the trimmed text
C11_TrimmedMarkedByWorkerOnly ==
  \A i \in DOMAIN sg :
     sg[i].in.consumer \in {"sphinx", "worker"} =>
        /\ TrimsAtSeparator(sg[i])
        /\ SepEvent(sg[i]) =>
             (Last(Produced(sg[i])).end_of_content
                <=> sg[i].in.consumer = "worker")

C11_Witness ==
  \E i \in DOMAIN sg :
     /\ sg[i].in.consumer = "sphinx"
     /\ sg[i].end = "break"
     /\ Len(sg[i].events) = 3
     /\ sg[i].response[1].text = <<"a", "nl">>

\* ============================================== the demo with a stalling worker
\* multi_turn_mm.py lines 93-132: a worker stops making progress for good,
\* before it puts Ready or inside the Model call of a request
WorkerStall(r) ==
  /\ wpc[r] \in {"top", "gen"}
  /\ wpc' = [wpc EXCEPT ![r] = "stalled"]
  /\ UNCHANGED << barrierCount, request_queues, response_queue, g, wreq,
                  posted, workerGhost, raisedCount, failPosted, orchVars >>
  /\ UNCHANGED workerHist
  /\ UNCHANGED readyPosted
  /\ UNCHANGED aloneVars

NextStall ==
  \/ Next
  \/ \E r \in Ranks : WorkerStall(r)

SpecStall == Init /\ [][NextStall]_vars

\* lines 157 and 163: the orchestrator is inside response_queue.get() and the
\* only process that puts on that queue has stalled
BlockedOnStalled ==
  /\ gpc \in {"waitReady", "relay"}
  /\ response_queue = <<>>
  /\ wpc[Primary] = "stalled"

\* C12: the orchestrator's waits are bounded: it is never left inside a wait
\* that no step of the program can end once the worker has stalled; the
\* request ends with a timeout error instead
C12_WaitIsBounded ==
  BlockedOnStalled => ENABLED (OrchWaitReady \/ OrchRelay)

\* once blocked on a stalled primary the orchestrator stays blocked
StallBlocksForever == [][BlockedOnStalled => BlockedOnStalled']_vars

\* --------------------------------------------------------------- C13
\* the prompt ids stream_generate keeps (tokens[:start_pos])
RetainedPrompt(run) == SubSeq(run.gs.tokens, 1, run.gs.start_pos)

\* C13: for every prompt length, every max_gen_len >= 1 and with or without
\* an image, the setup of stream_generate completes with the retained prompt
\* a suffix of the original of length at most context_window - max_gen_len
\* (nothing retained when that is not positive), total_len =
\* min(context_window, max_gen_len + prompt_len), and prompt_len <= total_len
C13_RetainedPromptFits ==
  \A i \in DOMAIN sg :
     sg[i].pc # "open" =>
        LET in == sg[i].in
            window == gen_max_seq_len(in.image)
            kept == RetainedPrompt(sg[i])
        IN /\ sg[i].pc # "raised"
           /\ IsSuffix(kept, PromptTokens(in.prompt_len))
           /\ Len(kept) <= SetMax({0, window - in.max_gen_len})
           /\ sg[i].gs.total_len = PyMin(window, in.max_gen_len + Len(kept))
           /\ Len(kept) <= sg[i].gs.total_len

\* --------------------------------------------------------------- C14
\* C14: the eos id is never written into the token buffer; in a run ended by
\* eos the Model was called once per yielded event plus once for the eos
\* draw and never again, generate_until counts only the yielded tokens, and
\* the final text is the text of the last event (empty when there is none)
C14_EosEndsWithoutEmitting ==
  \A i \in DOMAIN sg :
     LET gs == sg[i].gs
     IN /\ \A j \in 1..Len(gs.tokens) : gs.tokens[j] # EosId
        /\ sg[i].end = "eos" =>
             /\ sg[i].pc = "done"
             /\ Len(sg[i].calls) = Len(sg[i].events) + 1
             /\ gs.generate_until = gs.start_pos + Len(sg[i].events)
             /\ gs.generate_until = gs.cur_pos
             /\ sg[i].ret[1].text =
                  IF sg[i].events = <<>> THEN <<>> ELSE Last(sg[i].events).text

C14_Witness ==
  \E i \in DOMAIN sg :
     /\ sg[i].end = "eos"
     /\ Len(sg[i].events) = 2
     /\ sg[i].in.temperature > 0
     /\ sg[i].gs.total_len > sg[i].gs.cur_pos

\* --------------------------------------------------------------- C15
\* 0-based position of the earliest occurrence of any stop symbol in text
\* (-1 when none occurs)
FirstStopPos(text, stops) ==
  LET hits == {find(text, stops[k]) : k \in DOMAIN stops} \ {-1}
  IN IF hits = {} THEN -1 ELSE SetMin(hits)

\* C15: whatever the order of the stop symbols, no yielded text contains one
\* (the run stops at the step where one appears), and the final text of a run
\* stopped by a symbol is the decoded text cut at the earliest occurrence of
\* any stop symbol, so it contains no stop symbol
C15_FinalTextHasNoStopSymbol ==
  \A i \in DOMAIN sg :
     LET stops == sg[i].in.stops
     IN /\ \A j \in 1..Len(sg[i].events) :
              FirstStopPos(sg[i].events[j].text, stops) = -1
        /\ sg[i].end = "stop" =>
              /\ sg[i].ret[1].text =
                   SubSeq(Generated(sg[i].gs), 1,
                          FirstStopPos(Generated(sg[i].gs), stops))
              /\ FirstStopPos(sg[i].ret[1].text, stops) = -1

\* --------------------------------------------------------------- C17
\* C17: with temperature = 0, two runs on the same prompt and image started
\* from any two generator states yield the same events (at every moment one
\* run's events are a prefix of the other's, and finished runs agree on
\* events, final text and the way they ended), and no run changes its
\* generator state
C17_GreedyIsDeterministic ==
  \A i \in DOMAIN sg, j \in DOMAIN sg :
     (sg[i].in = sg[j].in /\ sg[i].in.temperature = 0) =>
        /\ sg[i].rng = sg[i].rng0
        /\ IsPrefix(sg[i].events, sg[j].events)
             \/ IsPrefix(sg[j].events, sg[i].events)
        /\ (sg[i].pc = "done" /\ sg[j].pc = "done") =>
              /\ sg[i].events = sg[j].events
              /\ sg[i].ret = sg[j].ret
              /\ sg[i].end = sg[j].end

C17_Witness ==
  /\ Len(sg) = 2
  /\ sg[1].in.temperature = 0
  /\ sg[1].rng0 # sg[2].rng0
  /\ sg[1].pc = "done" /\ sg[2].pc = "done"
  /\ Len(sg[1].events) >= 2

\* with temperature > 0 the two generator states do lead to different events
SamplingRunsDiffer ==
  /\ Len(sg) = 2
  /\ sg[1].in.temperature > 0
  /\ sg[1].pc = "done" /\ sg[2].pc = "done"
  /\ sg[1].events # sg[2].events

\* ============================================== Conversation.process alone
\* A str is a TLA+ string; an Optional[str] is <<>> for None and <<s>> for s.
MaxTurns == 3

ConvRoles == <<"Human", "Assistant">>
MessageValues == { <<>>, <<"">>, <<"Hi">> }
ConvTurns == [role : {ConvRoles[1], ConvRoles[2]}, message : MessageValues]

RECURSIVE SeqsUpTo(_, _)
SeqsUpTo(S, n) ==
  IF n = 0 THEN { <<>> }
  ELSE LET shorter == SeqsUpTo(S, n - 1)
       IN shorter \cup { Append(q, x) : q \in {r \in shorter : Len(r) = n - 1},
                                        x \in S }

\* lib.py lines 99-108 (conv_v1_2), 111-122 (conv_vicuna_v1_1), and a TWO template
\* built without sep2 (the dataclass default, line 20)
ConvTemplates ==
  { [sep_style |-> "SINGLE", sep |-> "###", sep2 |-> <<>>],
    [sep_style |-> "TWO", sep |-> " ", sep2 |-> <<"</s>">>],
    [sep_style |-> "TWO", sep |-> " ", sep2 |-> <<>>] }

\* lib.py line 30: message is not None
IsNotNone(message) == message # <<>>
\* lib.py line 47: if message (None and "" are both false)
IsTruthy(message) == message # <<>> /\ message[1] # ""

\* lib.py line 33
SinglePresent_NoNewline(role, message, sep) ==
  " " \o role \o ": " \o message \o sep
SinglePresent(role, message, sep) ==
  " " \o role \o ": " \o message \o "\n" \o sep

\* lib.py lines 41-43 and 58-60
AbsentTurn_NoColon(role, space_part_of_next_word) ==
  " " \o role \o (IF space_part_of_next_word THEN "" ELSE " ")
AbsentTurn(role, space_part_of_next_word) ==
  " " \o role \o ":" \o (IF space_part_of_next_word THEN "" ELSE " ")

InitConv ==
  /\ OrchInit
  /\ topp = AloneOff
  /\ sg = NoRuns
  /\ \E t \in ConvTemplates, msgs \in SeqsUpTo(ConvTurns, MaxTurns),
        space \in BOOLEAN :
        conv = [ pc |-> "call", sep_style |-> t.sep_style, system |-> "S",
                 sep |-> t.sep, sep2 |-> t.sep2, messages |-> msgs,
                 space_part_of_next_word |-> space,
                 i |-> 0, ret |-> "", error |-> "none" ]

\* lib.py lines 28 and 45-46: ret before the loop
ConvStart ==
  /\ conv.pc = "call"
  /\ conv' = [conv EXCEPT
                !.pc = "loop",
                !.ret = IF conv.sep_style = "SINGLE"
                          THEN conv.system \o "\n\n" \o conv.sep
                          ELSE conv.system \o conv.sep]
  /\ UNCHANGED << demoVars, topp, sg >>

\* lib.py lines 29-43 and 46-60: one iteration of the loop over the messages
ConvTurnOf(c) ==
  LET turn == c.messages[c.i + 1]
      last == c.i = Len(c.messages) - 1
      seps == << <<c.sep>>, c.sep2 >>
      cursep == seps[(c.i % 2) + 1]
      present == IF c.sep_style = "SINGLE" THEN IsNotNone(turn.message)
                 ELSE IsTruthy(turn.message)
  IN IF present
       THEN IF c.sep_style = "SINGLE"
              THEN [c EXCEPT !.i = @ + 1,
                             !.ret = @ \o SinglePresent(turn.role,
                                                        turn.message[1], c.sep)]
            ELSE IF cursep = <<>>
              THEN [c EXCEPT !.pc = "raised", !.error = "TypeError"]
            ELSE [c EXCEPT !.i = @ + 1,
                           !.ret = @ \o " " \o turn.role \o ": "
                                     \o turn.message[1] \o cursep[1]]
     ELSE IF ~last
       THEN [c EXCEPT !.pc = "raised", !.error = "AssertionError"]
     ELSE [c EXCEPT !.i = @ + 1,
                    !.ret = @ \o AbsentTurn(turn.role,
                                            c.space_part_of_next_word)]

ConvTurn ==
  /\ conv.pc = "loop"
  /\ conv.i < Len(conv.messages)
  /\ conv' = ConvTurnOf(conv)
  /\ UNCHANGED << demoVars, topp, sg >>

\* lib.py lines 65-69: the loop is over and the result is returned
ConvReturn ==
  /\ conv.pc = "loop"
  /\ conv.i = Len(conv.messages)
  /\ conv' = [conv EXCEPT !.pc = "returned"]
  /\ UNCHANGED << demoVars, topp, sg >>

NextConv == ConvStart \/ ConvTurn \/ ConvReturn

SpecConv == InitConv /\ [][NextConv]_vars

\* --------------------------------------------------------------- C18
\* the text the claim gives for the turns k.. of a SINGLE-style conversation
RECURSIVE SingleTurnsText(_, _, _, _)
SingleTurnsText(msgs, k, sep, space) ==
  IF k > Len(msgs) THEN ""
  ELSE (IF msgs[k].message # <<>>
          THEN " " \o msgs[k].role \o ": " \o msgs[k].message[1] \o "\n" \o sep
          ELSE " " \o msgs[k].role \o (IF space THEN ":" ELSE ": "))
       \o SingleTurnsText(msgs, k + 1, sep, space)

ExampleTurns ==
  << [role |-> "Human", message |-> <<"Hi">>],
     [role |-> "Assistant", message |-> <<>>] >>

\* C18: a SINGLE-style rendering that returns is system + "\n\n" + sep, then
\* " " + role + ": " + message + "\n" + sep per present turn, then
\* " " + role + ":" for a trailing absent turn (plus one space exactly when
\* space_part_of_next_word is false); the example renders as stated
C18_SingleStyleRendering ==
  (conv.pc = "returned" /\ conv.sep_style = "SINGLE") =>
     /\ conv.ret = conv.system \o "\n\n" \o conv.sep
                   \o SingleTurnsText(conv.messages, 1, conv.sep,
                                      conv.space_part_of_next_word)
     /\ \A k \in 1..(Len(conv.messages) - 1) : conv.messages[k].message # <<>>
     /\ (conv.messages = ExampleTurns /\ conv.space_part_of_next_word) =>
           conv.ret = "S\n\n### Human: Hi\n### Assistant:"

C18_Witness ==
  /\ conv.pc = "returned"
  /\ conv.sep_style = "SINGLE"
  /\ conv.messages = ExampleTurns
  /\ conv.ret = "S\n\n### Human: Hi\n### Assistant:"

\* --------------------------------------------------------------- C19
NonLastAbsent(msgs) ==
  \E k \in 1..(Len(msgs) - 1) : msgs[k].message = <<>>

\* C19: in both styles a finished rendering has failed if a non-last turn has
\* no message or the turn list is empty, and has returned a prompt for every
\* non-empty list whose non-last turns all have a message ("" included)
C19_RenderFailsExactlyOnBadTurns ==
  conv.pc \in {"returned", "raised"} =>
     (conv.pc = "raised"
        <=> (conv.messages = <<>> \/ NonLastAbsent(conv.messages)))

\* --------------------------------------------------------------- C20
\* C20: a TWO-style rendering whose sep2 is None never returns a prompt: it
\* fails, for every turn history (stated here for the non-empty ones, a single
\* turn included)
C20_NoPromptWithoutSep2 ==
  (conv.sep_style = "TWO" /\ conv.sep2 = <<>> /\ conv.messages # <<>>) =>
     conv.pc # "returned"

\* --------------------------------------------------------------- C21
\* the message of turn k is rendered (lib.py lines 30 and 47)
RenderedAsPresent(c, k) ==
  IF c.sep_style = "SINGLE" THEN c.messages[k].message # <<>>
  ELSE c.messages[k].message # <<>> /\ c.messages[k].message[1] # ""

\* the text that closes the rendered message of turn k: "\n" + sep in SINGLE
\* style, the separator of the turn's parity in TWO style
TurnEnd(c, k) ==
  IF c.sep_style = "SINGLE" THEN "\n" \o c.sep
  ELSE IF k % 2 = 1 THEN c.sep
  ELSE IF c.sep2 = <<>> THEN "" ELSE c.sep2[1]

RoleColon(c, k) ==
  " " \o c.messages[k].role \o
     (IF c.space_part_of_next_word THEN ":" ELSE ": ")

\* the separator follows the message of every completed assistant turn
SeparatorAfterAssistantTurns(c) ==
  \A k \in 1..Len(c.messages) :
     (c.messages[k].role = ConvRoles[2] /\ RenderedAsPresent(c, k)) =>
        find(c.ret, ": " \o c.messages[k].message[1] \o TurnEnd(c, k)) # -1

\* C21 (as stated): for every non-empty history whose non-last turns have a
\* message, whether the last message is present or absent and in both
\* styles, the rendered prompt ends with " " + role + ":" of the last turn
\* (plus the optional space), and the separator follows every completed
\* assistant turn's message
C21_PromptEndsWithRoleColon ==
  (conv.pc = "returned" /\ conv.messages # <<>>) =>
     /\ IsSuffix(RoleColon(conv, Len(conv.messages)), conv.ret)
     /\ SeparatorAfterAssistantTurns(conv)

\* C21 (amended): a rendered prompt ends with " " + role + ":" of the last
\* turn (plus the optional space) when the last turn's message is not
\* rendered (None, or "" in TWO style); when it is rendered the prompt ends
\* with that message and its separator; the separator follows every
\* completed assistant turn's message
C21_PromptEndsByLastTurn ==
  (conv.pc = "returned" /\ conv.messages # <<>>) =>
     LET n == Len(conv.messages)
     IN /\ IF RenderedAsPresent(conv, n)
             THEN IsSuffix(conv.messages[n].message[1] \o TurnEnd(conv, n),
                           conv.ret)
             ELSE IsSuffix(RoleColon(conv, n), conv.ret)
        /\ RenderedAsPresent(conv, n) =>
              ~IsSuffix(RoleColon(conv, n), conv.ret)
        /\ SeparatorAfterAssistantTurns(conv)

C21_Witness ==
  /\ conv.pc = "returned"
  /\ conv.sep_style = "TWO"
  /\ Len(conv.messages) = 3
  /\ conv.messages[2] = [role |-> "Assistant", message |-> <<"Hi">>]
  /\ conv.messages[3].message = <<>>
  /\ conv.ret = "S  Human: Hi  Assistant: Hi</s> Human:"

\* --------------------------------------------------------------- C22
\* a run whose setup completed (start_pos and generate_until are bound)
SetUp(run) == run.pc \in {"run", "done"}

\* C22: the first Model call covers [0, prompt_len) at cache position 0,
\* every later call covers exactly the one position appended since, starting
\* where the previous call ended and with that position as its cache
\* position; cache positions never decrease; and
\* start_pos <= generate_until <= total_len
C22_CachePositionBookkeeping ==
  \A i \in DOMAIN sg :
     SetUp(sg[i]) =>
        LET calls == sg[i].calls
            gs == sg[i].gs
        IN /\ calls # <<>> =>
                /\ calls[1].lo = 0
                /\ calls[1].hi = gs.start_pos
                /\ calls[1].start_pos = 0
           /\ \A j \in 2..Len(calls) :
                /\ calls[j].lo = calls[j - 1].hi
                /\ calls[j].hi = calls[j].lo + 1
                /\ calls[j].start_pos = calls[j].lo
                /\ calls[j].start_pos >= calls[j - 1].start_pos
           /\ gs.start_pos <= gs.generate_until
           /\ gs.generate_until <= gs.total_len

C22_Witness ==
  \E i \in DOMAIN sg :
     /\ sg[i].pc = "done"
     /\ Len(sg[i].calls) >= 3
     /\ sg[i].gs.start_pos >= 2
     /\ sg[i].in.prompt_len > sg[i].gs.start_pos

\* --------------------------------------------------------------- C23
\* C23: in a request with an image, whatever prompt_len and max_gen_len
\* (a retained prompt of length 0 included), exactly one Model call receives
\* the image: the first, at cache position 0, covering the prompt
C23_ImageOnFirstCallOnly ==
  \A i \in DOMAIN sg :
     (sg[i].in.image /\ sg[i].calls # <<>>) =>
        /\ {j \in 1..Len(sg[i].calls) : sg[i].calls[j].image} = {1}
        /\ sg[i].calls[1].start_pos = 0
        /\ sg[i].calls[1].hi = sg[i].gs.start_pos

\* --------------------------------------------------------------- C24
\* the run is over: the generator returned, was abandoned by its consumer,
\* or raised
Finished(run) == run.pc \in {"done", "raised"}

\* passes of the decode loop the run can still make
StepsLeft(run) ==
  CASE run.pc = "open" -> MaxSeqLen + 3
    [] run.pc = "run" -> run.gs.total_len - run.gs.cur_pos + 1
    [] OTHER -> 0

GenWithinBounds(run) ==
  LET gs == run.gs
      room == SetMax({0, gs.total_len - gs.start_pos})
  IN /\ room <= run.in.max_gen_len
     /\ Len(run.calls) <= room
     /\ Len(run.events) <= run.in.max_gen_len
     /\ gs.generate_until - gs.start_pos <= run.in.max_gen_len
     /\ gs.generate_until - gs.start_pos <= Len(run.calls)

\* C24: for every prompt and max_gen_len a run makes at most
\* total_len - prompt_len <= max_gen_len Model calls, yields at most
\* max_gen_len events and appends at most max_gen_len tokens; every step of
\* a run lowers the number of steps it has left, which is 0 only when the run
\* is finished
C24_TerminatesWithinBounds ==
  /\ [](\A i \in DOMAIN sg :
           /\ sg[i].pc # "open" => GenWithinBounds(sg[i])
           /\ StepsLeft(sg[i]) >= 0
           /\ StepsLeft(sg[i]) = 0 <=> Finished(sg[i]))
  /\ [][\A i \in DOMAIN sg :
           (sg'[i].pc # sg[i].pc \/ sg'[i].gs # sg[i].gs \/
            sg'[i].calls # sg[i].calls \/ sg'[i].events # sg[i].events)
              => StepsLeft(sg'[i]) < StepsLeft(sg[i])]_vars

C24_Witness ==
  \E i \in DOMAIN sg :
     /\ sg[i].pc = "done"
     /\ sg[i].end = "len"
     /\ Len(sg[i].calls) = sg[i].in.max_gen_len
     /\ Len(sg[i].events) = sg[i].in.max_gen_len
     /\ sg[i].in.max_gen_len >= 3

\* --------------------------------------------------------------- C25
\* the request tuples put on worker r's queue so far, in order
Received(r) ==
  [k \in 1..Len(hist[r]) |-> hist[r][k].req] \o request_queues[r]

\* C25: every worker is sent the same request tuples, each once and in the
\* same order; and, when no worker has raised, a replica that has finished
\* the decode of a request made as many passes of the decode loop as the
\* primary and ended it the same way, and a replica still decoding has not
\* gone past the step at which the primary stopped
C25_WorkersInLockStep ==
  /\ \A r \in Ranks :
        /\ IsPrefix(Received(r), Received(Primary))
        /\ \A k \in 1..Len(Received(r)) : Received(r)[k].id = k
  /\ NoWorkerRaised =>
        \A r \in Ranks :
           \A k \in 1..PyMin(Len(hist[r]), Len(hist[Primary])) :
              /\ hist[r][k].rng0 = hist[Primary][k].rng0
              /\ hist[Primary][k].end # "none" =>
                    hist[r][k].steps <= hist[Primary][k].steps
              /\ (hist[r][k].end # "none" /\ hist[Primary][k].end # "none") =>
                    /\ hist[r][k].steps = hist[Primary][k].steps
                    /\ hist[r][k].end = hist[Primary][k].end

C25_Witness ==
  /\ NoWorkerRaised
  /\ \A r \in Ranks :
        /\ Len(hist[r]) = 2
        /\ hist[r][1].end = "break"
        /\ hist[r][1].steps = 3
        /\ hist[r][2].end = "eos"
        /\ hist[r][2].steps = 2

\* --------------------------------------------------------------- C26
\* C26: at the start of the decode of every request all workers hold the same
\* generator state, whatever happened in earlier requests (a worker raising
\* part-way through a decode included)
C26_SameGeneratorStateAtDecodeStart ==
  \A r \in Ranks :
     \A k \in 1..PyMin(Len(hist[r]), Len(hist[Primary])) :
        hist[r][k].rng0 = hist[Primary][k].rng0

\* --------------------------------------------------------------- C27
ReadyInChannel ==
  Cardinality({k \in 1..Len(response_queue) : response_queue[k].kind = "Ready"})

\* C27: the primary has put one Ready marker for each request it has taken,
\* plus one when it is waiting for a request; replicas put none; the response
\* queue never holds more than one Ready marker
C27_OneReadyPerCycle ==
  /\ readyPosted[Primary] =
        Len(hist[Primary]) + (IF wpc[Primary] = "get" THEN 1 ELSE 0)
  /\ \A r \in Ranks \ {Primary} : readyPosted[r] = 0
  /\ ReadyInChannel <= 1

C27_Witness ==
  /\ readyPosted[Primary] = 3
  /\ Len(hist[Primary]) = 2
  /\ ReadyInChannel = 1
  /\ \E r \in Ranks \ {Primary} : Len(hist[r]) = 1 /\ wpc[r] = "gen"

\* --------------------------------------------------------------- C28
\* C28: a worker that raised while handling a request is still alive: it is
\* at the top of its loop, waiting for a request, or handling a later one
C28_WorkersSurviveExceptions ==
  \A r \in Ranks :
     raisedCount[r] > 0 => wpc[r] \in {"top", "get", "gen"}

\* --------------------------------------------------------------- C29
\* the orchestrator is inside response_queue.get() waiting for Ready while
\* the primary, the only worker that puts Ready, is inside
\* request_queue.get(): neither can move
MutualWait ==
  /\ gpc = "waitReady"
  /\ response_queue = <<>>
  /\ wpc[Primary] = "get"
  /\ request_queues[Primary] = <<>>

\* C29: however the earlier requests ended, the orchestrator and the primary
\* never wait for each other, and the relay loop never takes a Ready marker
\* for a content item
C29_NoDeadlockAcrossRequests ==
  /\ ~MutualWait
  /\ outcome # "TypeError"

\* --------------------------------------------------------------- C30
\* the text generate_reponse is to return: the text before the separator,
\* right-stripped, plus a newline when an event contains the separator, else
\* the text of the last event
ExpectedResponse(run) ==
  IF run.events = <<>> THEN <<>>
  ELSE IF SepEvent(run) THEN TrimmedAtSep(Last(run.events).text)
  ELSE Last(run.events).text

\* C30: when generate_reponse has left its loop it returns a string, the
\* expected response text, also when the decoder yielded no event
C30_ReturnsResponseString ==
  \A i \in DOMAIN sg :
     (sg[i].in.consumer = "sphinx" /\ sg[i].result # <<>>) =>
        /\ sg[i].result[1].kind = "str"
        /\ sg[i].result[1].text = ExpectedResponse(sg[i])

====
